---- MODULE Spec2Model ----
(***************************************************************************)
(* Model of core/hooks/safe-operations.py: the PreToolUse safety hook.     *)
(* Python strings are sequences of one-character strings, so that          *)
(* str.startswith, os.path.abspath and the regular expressions are         *)
(* computed character by character, as the code computes them.             *)
(***************************************************************************)
EXTENDS Integers, Sequences, FiniteSets, TLC

VARIABLES stdin, environ, os_getcwd, pc, tool_name, tool_input, project_root,
          calls, stdout

vars == <<stdin, environ, os_getcwd, pc, tool_name, tool_input, project_root,
          calls, stdout>>

(***************************************************************************)
(* Python str primitives                                                   *)
(***************************************************************************)
\* str.startswith
StartsWith(s, p) == Len(p) <= Len(s) /\ SubSeq(s, 1, Len(p)) = p

\* s[i:] with a 0-based index i
From(s, i) == SubSeq(s, i + 1, Len(s))

\* str.find(c, start): 0-based index of the first c at or after start, -1 if none
Find(s, c, start) ==
  LET hits == {i \in start..(Len(s) - 1) : s[i + 1] = c}
  IN IF hits = {} THEN -1 ELSE CHOOSE i \in hits : \A j \in hits : i <= j

\* str.split(c)
RECURSIVE Split(_, _)
Split(s, c) ==
  LET i == Find(s, c, 0)
  IN IF i < 0 THEN <<s>> ELSE <<SubSeq(s, 1, i)>> \o Split(From(s, i + 1), c)

\* c.join(parts)
RECURSIVE Join(_, _)
Join(parts, c) ==
  IF parts = <<>> THEN <<>>
  ELSE IF Len(parts) = 1 THEN parts[1]
  ELSE parts[1] \o <<c>> \o Join(Tail(parts), c)

\* str.rstrip(c)
RECURSIVE RStrip(_, _)
RStrip(s, c) ==
  IF s # <<>> /\ s[Len(s)] = c THEN RStrip(SubSeq(s, 1, Len(s) - 1), c) ELSE s

\* dict.get(key, default)
Get(d, key, default) == IF key \in DOMAIN d THEN d[key] ELSE default

(***************************************************************************)
(* posixpath, as the hook uses it                                          *)
(***************************************************************************)
os_sep == "/"

\* the password database consulted by expanduser for ~name
PasswdDir == [name \in {<<"r","o","o","t">>} |-> <<"/","r","o","o","t">>]

\* os.path.expanduser
expanduser(path) ==
  IF ~StartsWith(path, <<"~">>) THEN path
  ELSE
    LET f == Find(path, os_sep, 1)
        i == IF f < 0 THEN Len(path) ELSE f
        name == SubSeq(path, 2, i)
    IN IF i # 1 /\ name \notin DOMAIN PasswdDir THEN path
       ELSE
         LET userhome == IF i = 1 THEN environ["HOME"] ELSE PasswdDir[name]
             joined == RStrip(userhome, os_sep) \o From(path, i)
         IN IF joined = <<>> THEN <<os_sep>> ELSE joined

\* the component loop of os.path.normpath
RECURSIVE NormComps(_, _, _)
NormComps(comps, new_comps, initial_slashes) ==
  IF comps = <<>> THEN new_comps
  ELSE
    LET comp == Head(comps)
        n == Len(new_comps)
    IN IF comp = <<>> \/ comp = <<".">>
         THEN NormComps(Tail(comps), new_comps, initial_slashes)
       ELSE IF comp # <<".",".">> \/ (initial_slashes = 0 /\ n = 0)
                 \/ (n > 0 /\ new_comps[n] = <<".",".">>)
         THEN NormComps(Tail(comps), Append(new_comps, comp), initial_slashes)
       ELSE IF n > 0
         THEN NormComps(Tail(comps), SubSeq(new_comps, 1, n - 1), initial_slashes)
       ELSE NormComps(Tail(comps), new_comps, initial_slashes)

\* os.path.normpath
normpath(path) ==
  IF path = <<>> THEN <<".">>
  ELSE
    LET initial_slashes ==
          IF ~StartsWith(path, <<"/">>) THEN 0
          ELSE IF StartsWith(path, <<"/","/">>) /\ ~StartsWith(path, <<"/","/","/">>) THEN 2
          ELSE 1
        comps == NormComps(Split(path, os_sep), <<>>, initial_slashes)
        joined == [k \in 1..initial_slashes |-> os_sep] \o Join(comps, os_sep)
    IN IF joined = <<>> THEN <<".">> ELSE joined

\* os.path.join(a, b)
join(a, b) ==
  IF StartsWith(b, <<"/">>) THEN b
  ELSE IF a = <<>> \/ a[Len(a)] = os_sep THEN a \o b
  ELSE a \o <<os_sep>> \o b

\* os.path.abspath
abspath(path) ==
  IF StartsWith(path, <<"/">>) THEN normpath(path) ELSE normpath(join(os_getcwd, path))

(***************************************************************************)
(* Reasons and verdicts                                                    *)
(***************************************************************************)
\* a formatted reason: the f-string's fixed text and the values it embeds
Reason(text, desc, path, dir) ==
  [text |-> text, desc |-> desc, path |-> path, dir |-> dir]

NoReason == Reason("", "", <<>>, <<>>)

\* a (bool, reason) result
Result(flag, reason) == [flag |-> flag, reason |-> reason]

(***************************************************************************)
(* The path checkers                                                       *)
(***************************************************************************)
PROTECTED_DIRECTORIES ==
  << <<"/","e","t","c">>, <<"/","u","s","r">>, <<"/","v","a","r">>, <<"/","b","i","n">>, <<"/","s","b","i","n">>, <<"/","l","i","b">>, <<"/","l","i","b","6","4">>,
     <<"/","b","o","o","t">>, <<"/","s","y","s">>, <<"/","p","r","o","c">>, <<"/","d","e","v">>, <<"/","r","o","o","t">>, <<"/","S","y","s","t","e","m">>, <<"/","L","i","b","r","a","r","y">>,
     <<"/","A","p","p","l","i","c","a","t","i","o","n","s">> >>

\* the temporary-directory test used throughout
IsTmp(s) == StartsWith(s, <<"/","t","m","p","/">>) \/ StartsWith(s, <<"/","p","r","i","v","a","t","e","/","t","m","p","/">>)

\* the configuration directory of is_path_outside_project
claude_config_dir == expanduser(Get(environ, "CLAUDE_CONFIG_DIR", <<"~","/",".","c","l","a","u","d","e">>))

is_path_outside_project(file_path, root) ==
  LET abs_file == abspath(expanduser(file_path))
      abs_project == abspath(root)
      abs_claude_config == abspath(claude_config_dir)
  IN IF StartsWith(abs_file, abs_claude_config \o <<os_sep>>)
          \/ abs_file = abs_claude_config
       THEN FALSE
     ELSE IF IsTmp(abs_file) THEN FALSE
     ELSE ~StartsWith(abs_file, abs_project \o <<os_sep>>) /\ abs_file # abs_project

\* a variant of MatchesProtected that compares the text only, without os.sep
MatchesProtected_NoSeparator(abs_path, protected_dir) ==
  StartsWith(abs_path, protected_dir)

\* the test of one protected directory
MatchesProtected(abs_path, protected_dir) ==
  StartsWith(abs_path, protected_dir \o <<os_sep>>) \/ abs_path = protected_dir

is_protected_path(file_path) ==
  LET abs_path == abspath(expanduser(file_path))
      hits == {k \in 1..Len(PROTECTED_DIRECTORIES) :
                 MatchesProtected(abs_path, PROTECTED_DIRECTORIES[k])}
  IN IF hits = {} THEN Result(FALSE, NoReason)
     ELSE LET k == CHOOSE h \in hits : \A j \in hits : h <= j
          IN Result(TRUE, Reason("Cannot modify files in protected directory: {protected_dir}",
                                 "", <<>>, PROTECTED_DIRECTORIES[k]))

(***************************************************************************)
(* Regular expressions (module re, with re.IGNORECASE)                     *)
(***************************************************************************)
LowerLetters == <<"a","b","c","d","e","f","g","h","i","j","k","l","m","n","o","p","q","r","s","t","u","v","w","x","y","z">>
UpperLetters == <<"A","B","C","D","E","F","G","H","I","J","K","L","M","N","O","P","Q","R","S","T","U","V","W","X","Y","Z">>
LowerCase == {LowerLetters[k] : k \in 1..Len(LowerLetters)}
UpperCase == {UpperLetters[k] : k \in 1..Len(UpperLetters)}
Digits == {"0", "1", "2", "3", "4", "5", "6", "7", "8", "9"}
\* \s
Whitespace == {" ", "\t", "\n", "\r", "\f"}
\* \w
WordChars == LowerCase \cup UpperCase \cup Digits \cup {"_"}

\* case folding of re.IGNORECASE
LowerOf == [c \in UpperCase |->
              LowerLetters[CHOOSE k \in 1..Len(UpperLetters) : UpperLetters[k] = c]]
Fold(c) == IF c \in UpperCase THEN LowerOf[c] ELSE c

\* the syntax of patterns; a character class is kept case-folded
In(cs) == [t |-> "set", neg |-> FALSE, cs |-> {Fold(d) : d \in cs}]
NotIn(cs) == [t |-> "set", neg |-> TRUE, cs |-> {Fold(d) : d \in cs}]
Lit(c) == In({c})
Dot == [t |-> "dot"]
WordB == [t |-> "wordb"]
Cat(rs) == [t |-> "cat", rs |-> rs]
Alt(rs) == [t |-> "alt", rs |-> rs]
Star(r) == [t |-> "star", r |-> r]
Plus(r) == Cat(<<r, Star(r)>>)
Opt(r) == Alt(<<r, Cat(<<>>)>>)
Grp(n, r) == [t |-> "grp", n |-> n, r |-> r]
Str(s) == Cat([k \in 1..Len(s) |-> Lit(s[k])])

\* one character against a character class, ignoring case
InClass(re, c) == (Fold(c) \in re.cs) # re.neg

\* \b at offset i of s
AtWordBoundary(s, i) ==
  LET before == i > 0 /\ s[i] \in WordChars
      after == i < Len(s) /\ s[i + 1] \in WordChars
  IN before # after

NoGroups == [n \in 1..2 |-> <<-1, -1>>]
Outcome(end, g) == [end |-> end, g |-> g]

\* The backtracking matcher: the ways pattern re matches s from offset i, in
\* the order the matcher tries them (greedy first), each with its end offset
\* and the groups captured. The first outcome is the match re reports.
RECURSIVE Match(_, _, _, _), MatchCat(_, _, _, _, _), CatRest(_, _, _, _),
          MatchAlt(_, _, _, _, _), StarRest(_, _, _, _)
Match(re, s, i, g) ==
  CASE re.t = "set" ->
         IF i < Len(s) /\ InClass(re, s[i + 1]) THEN <<Outcome(i + 1, g)>> ELSE <<>>
    [] re.t = "dot" ->
         IF i < Len(s) /\ s[i + 1] # "\n" THEN <<Outcome(i + 1, g)>> ELSE <<>>
    [] re.t = "wordb" ->
         IF AtWordBoundary(s, i) THEN <<Outcome(i, g)>> ELSE <<>>
    [] re.t = "cat" -> MatchCat(re.rs, 1, s, i, g)
    [] re.t = "alt" -> MatchAlt(re.rs, 1, s, i, g)
    [] re.t = "star" ->
         StarRest(re, s, i, Match(re.r, s, i, g)) \o <<Outcome(i, g)>>
    [] re.t = "grp" ->
         LET inner == Match(re.r, s, i, g)
         IN [k \in 1..Len(inner) |->
               Outcome(inner[k].end, [inner[k].g EXCEPT ![re.n] = <<i, inner[k].end>>])]

MatchCat(rs, k, s, i, g) ==
  IF k > Len(rs) THEN <<Outcome(i, g)>>
  ELSE CatRest(rs, k, s, Match(rs[k], s, i, g))

CatRest(rs, k, s, outs) ==
  IF outs = <<>> THEN <<>>
  ELSE MatchCat(rs, k + 1, s, Head(outs).end, Head(outs).g)
         \o CatRest(rs, k, s, Tail(outs))

MatchAlt(rs, k, s, i, g) ==
  IF k > Len(rs) THEN <<>>
  ELSE Match(rs[k], s, i, g) \o MatchAlt(rs, k + 1, s, i, g)

StarRest(re, s, i, outs) ==
  IF outs = <<>> THEN <<>>
  ELSE (IF Head(outs).end > i THEN Match(re, s, Head(outs).end, Head(outs).g) ELSE <<>>)
         \o StarRest(re, s, i, Tail(outs))

NoMatch == [start |-> -1, end |-> -1, g |-> NoGroups]

\* pattern.search(s, pos): the leftmost match at or after pos
RECURSIVE SearchFrom(_, _, _)
SearchFrom(re, s, pos) ==
  IF pos > Len(s) THEN NoMatch
  ELSE LET outs == Match(re, s, pos, NoGroups)
       IN IF outs # <<>> THEN [start |-> pos, end |-> outs[1].end, g |-> outs[1].g]
          ELSE SearchFrom(re, s, pos + 1)

\* re.search(pattern, s, re.IGNORECASE) is not None
re_search(re, s) == SearchFrom(re, s, 0).start >= 0

\* re.finditer(pattern, s, re.IGNORECASE): the non-overlapping matches, in order
RECURSIVE FindIterFrom(_, _, _)
FindIterFrom(re, s, pos) ==
  LET m == SearchFrom(re, s, pos)
  IN IF m.start < 0 THEN <<>>
     ELSE <<m>> \o FindIterFrom(re, s, IF m.end = m.start THEN m.end + 1 ELSE m.end)

re_finditer(re, s) == FindIterFrom(re, s, 0)

\* match.group(n)
group(s, m, n) == SubSeq(s, m.g[n][1] + 1, m.g[n][2])

(***************************************************************************)
(* The pattern tables                                                      *)
(***************************************************************************)
Pat(re, text) == [re |-> re, text |-> text]

DANGEROUS_BASH_PATTERNS == <<
  Pat(Cat(<<WordB, Str(<<"r","m">>), Plus(In(Whitespace)), Star(Grp(1, Cat(<<Lit("-"), Plus(In({"r", "R", "f", "i", "v"})), Plus(In(Whitespace))>>))), Lit("/")>>), "Cannot delete files with absolute paths starting from root"),
  Pat(Cat(<<WordB, Str(<<"r","m">>), Plus(In(Whitespace)), Star(Grp(1, Cat(<<Lit("-"), Plus(In({"r", "R", "f", "i", "v"})), Plus(In(Whitespace))>>))), Str(<<"~","/">>)>>), "Cannot delete files in home directory via rm"),
  Pat(Cat(<<WordB, Str(<<"r","m">>), Plus(In(Whitespace)), Star(Dot), Str(<<".",".">>), In(Whitespace \cup {"/"})>>), "Cannot use .. in rm commands - potential path traversal"),
  Pat(Cat(<<Lit(">"), Star(In(Whitespace)), Str(<<"/","e","t","c","/">>)>>), "Cannot redirect output to /etc/"),
  Pat(Cat(<<Lit(">"), Star(In(Whitespace)), Str(<<"/","u","s","r","/">>)>>), "Cannot redirect output to /usr/"),
  Pat(Cat(<<Lit(">"), Star(In(Whitespace)), Str(<<"/","v","a","r","/">>)>>), "Cannot redirect output to /var/"),
  Pat(Cat(<<Lit(">"), Star(In(Whitespace)), Str(<<"/","b","i","n","/">>)>>), "Cannot redirect output to /bin/"),
  Pat(Cat(<<Lit(">"), Star(In(Whitespace)), Str(<<"/","s","b","i","n","/">>)>>), "Cannot redirect output to /sbin/"),
  Pat(Cat(<<Lit(">"), Star(In(Whitespace)), Str(<<"/","l","i","b","/">>)>>), "Cannot redirect output to /lib/"),
  Pat(Cat(<<Lit(">"), Star(In(Whitespace)), Str(<<"/","b","o","o","t","/">>)>>), "Cannot redirect output to /boot/"),
  Pat(Cat(<<Lit(">"), Star(In(Whitespace)), Str(<<"/","s","y","s","/">>)>>), "Cannot redirect output to /sys/"),
  Pat(Cat(<<Lit(">"), Star(In(Whitespace)), Str(<<"/","p","r","o","c","/">>)>>), "Cannot redirect output to /proc/"),
  Pat(Cat(<<Lit(">"), Star(In(Whitespace)), Str(<<"/","r","o","o","t","/">>)>>), "Cannot redirect output to /root/"),
  Pat(Cat(<<WordB, Str(<<"c","h","m","o","d">>), Plus(In(Whitespace)), Star(Dot), Plus(In(Whitespace)), Lit("/"), Alt(<<Str(<<"e","t","c">>), Str(<<"u","s","r">>), Str(<<"v","a","r">>), Str(<<"b","i","n">>), Str(<<"s","b","i","n">>), Str(<<"l","i","b">>), Str(<<"b","o","o","t">>)>>)>>), "Cannot chmod system directories"),
  Pat(Cat(<<WordB, Str(<<"c","h","o","w","n">>), Plus(In(Whitespace)), Star(Dot), Plus(In(Whitespace)), Lit("/"), Alt(<<Str(<<"e","t","c">>), Str(<<"u","s","r">>), Str(<<"v","a","r">>), Str(<<"b","i","n">>), Str(<<"s","b","i","n">>), Str(<<"l","i","b">>), Str(<<"b","o","o","t">>)>>)>>), "Cannot chown system directories"),
  Pat(Cat(<<WordB, Str(<<"d","d">>), Plus(In(Whitespace)), Star(Dot), Str(<<"o","f","=","/","d","e","v","/">>)>>), "Cannot write directly to devices with dd"),
  Pat(Cat(<<WordB, Str(<<"m","k","f","s">>), WordB>>), "Cannot create filesystems"),
  Pat(Cat(<<WordB, Str(<<"f","d","i","s","k">>), WordB>>), "Cannot modify disk partitions"),
  Pat(Cat(<<WordB, Str(<<"p","a","r","t","e","d">>), WordB>>), "Cannot modify disk partitions"),
  Pat(Cat(<<WordB, Str(<<"k","i","l","l","a","l","l">>), Plus(In(Whitespace)), Str(<<"-","9">>), Plus(In(Whitespace))>>), "Cannot use killall -9"),
  Pat(Cat(<<WordB, Str(<<"p","k","i","l","l">>), Plus(In(Whitespace)), Str(<<"-","9">>), Plus(In(Whitespace))>>), "Cannot use pkill -9"),
  Pat(Cat(<<WordB, Str(<<"s","y","s","t","e","m","c","t","l">>), Plus(In(Whitespace)), Grp(1, Alt(<<Str(<<"s","t","o","p">>), Str(<<"d","i","s","a","b","l","e">>), Str(<<"m","a","s","k">>)>>)), Plus(In(Whitespace))>>), "Cannot stop/disable system services"),
  Pat(Cat(<<WordB, Str(<<"l","a","u","n","c","h","c","t","l">>), Plus(In(Whitespace)), Grp(1, Alt(<<Str(<<"u","n","l","o","a","d">>), Str(<<"r","e","m","o","v","e">>)>>)), Plus(In(Whitespace))>>), "Cannot unload system services (macOS)"),
  Pat(Cat(<<WordB, Str(<<"i","p","t","a","b","l","e","s">>), Plus(In(Whitespace)), Star(Dot), Str(<<"-","F">>)>>), "Cannot flush firewall rules"),
  Pat(Cat(<<WordB, Str(<<"u","f","w">>), Plus(In(Whitespace)), Str(<<"d","i","s","a","b","l","e">>)>>), "Cannot disable firewall"),
  Pat(Cat(<<WordB, Str(<<"s","u","d","o">>), Plus(In(Whitespace)), Str(<<"r","m">>), Plus(In(Whitespace))>>), "Cannot use sudo rm"),
  Pat(Cat(<<WordB, Str(<<"s","u","d","o">>), Plus(In(Whitespace)), Str(<<"c","h","m","o","d">>), Plus(In(Whitespace))>>), "Cannot use sudo chmod"),
  Pat(Cat(<<WordB, Str(<<"s","u","d","o">>), Plus(In(Whitespace)), Str(<<"c","h","o","w","n">>), Plus(In(Whitespace))>>), "Cannot use sudo chown"),
  Pat(Cat(<<WordB, Str(<<"c","h","m","o","d">>), Plus(In(Whitespace)), Lit("-"), In({"r", "R"}), Plus(In(Whitespace)), Lit("/")>>), "Cannot recursive chmod from root"),
  Pat(Cat(<<WordB, Str(<<"c","h","o","w","n">>), Plus(In(Whitespace)), Lit("-"), In({"r", "R"}), Plus(In(Whitespace)), Lit("/")>>), "Cannot recursive chown from root"),
  Pat(Cat(<<WordB, Str(<<"f","i","n","d">>), Plus(In(Whitespace)), Lit("/"), Plus(In(Whitespace)), Star(Dot), Str(<<"-","d","e","l","e","t","e">>)>>), "Cannot use find / with -delete"),
  Pat(Cat(<<WordB, Str(<<"f","i","n","d">>), Plus(In(Whitespace)), Lit("/"), Plus(In(Whitespace)), Star(Dot), Str(<<"-","e","x","e","c">>), Plus(In(Whitespace)), Str(<<"r","m">>)>>), "Cannot use find / with -exec rm") >>

BASH_WRITE_PATTERNS == <<
  Pat(Cat(<<Lit(">"), Star(In(Whitespace)), Grp(1, Plus(NotIn(Whitespace \cup {";", "|", "&", ">", "<"})))>>), "redirect output"),
  Pat(Cat(<<Str(<<">",">">>), Star(In(Whitespace)), Grp(1, Plus(NotIn(Whitespace \cup {";", "|", "&", ">", "<"})))>>), "append output"),
  Pat(Cat(<<WordB, Str(<<"t","e","e">>), Plus(In(Whitespace)), Opt(Cat(<<Str(<<"-","a">>), Plus(In(Whitespace))>>)), Grp(1, Plus(NotIn(Whitespace \cup {";", "|", "&", ">", "<"})))>>), "tee") >>

BASH_COPY_PATTERNS == <<
  Cat(<<WordB, Str(<<"c","p">>), Plus(In(Whitespace)), Star(Cat(<<Lit("-"), Plus(In(LowerCase \cup UpperCase)), Plus(In(Whitespace))>>)), Grp(1, Plus(NotIn(Whitespace \cup {";", "|", "&", ">", "<"}))), Plus(In(Whitespace)), Grp(2, Plus(NotIn(Whitespace \cup {";", "|", "&", ">", "<"})))>>),
  Cat(<<WordB, Str(<<"m","v">>), Plus(In(Whitespace)), Star(Cat(<<Lit("-"), Plus(In(LowerCase \cup UpperCase)), Plus(In(Whitespace))>>)), Grp(1, Plus(NotIn(Whitespace \cup {";", "|", "&", ">", "<"}))), Plus(In(Whitespace)), Grp(2, Plus(NotIn(Whitespace \cup {";", "|", "&", ">", "<"})))>>) >>

(***************************************************************************)
(* The command checkers                                                    *)
(***************************************************************************)
check_bash_command(command) ==
  LET hits == {k \in 1..Len(DANGEROUS_BASH_PATTERNS) :
                 re_search(DANGEROUS_BASH_PATTERNS[k].re, command)}
  IN IF hits = {} THEN Result(FALSE, NoReason)
     ELSE LET k == CHOOSE h \in hits : \A j \in hits : h <= j
          IN Result(TRUE, Reason(DANGEROUS_BASH_PATTERNS[k].text, "", <<>>, <<>>))

\* the body of check_bash_write_paths' inner loop for one match
WriteTarget(desc, target_path, root) ==
  IF StartsWith(target_path, <<"/","d","e","v","/">>) THEN Result(FALSE, NoReason)
  ELSE IF IsTmp(target_path) THEN Result(FALSE, NoReason)
  ELSE IF ~StartsWith(target_path, <<"/">>) THEN Result(FALSE, NoReason)
  ELSE IF is_protected_path(target_path).flag
    THEN Result(TRUE, Reason("Cannot {desc} to protected path: {target_path}",
                             desc, target_path, <<>>))
  ELSE IF is_path_outside_project(target_path, root)
    THEN Result(TRUE, Reason("Cannot {desc} to '{target_path}' - path is outside project directory",
                             desc, target_path, <<>>))
  ELSE Result(FALSE, NoReason)

\* the first result of rs that blocks (the loops' early return)
RECURSIVE FirstBlocked(_)
FirstBlocked(rs) ==
  IF rs = <<>> THEN Result(FALSE, NoReason)
  ELSE IF Head(rs).flag THEN Head(rs)
  ELSE FirstBlocked(Tail(rs))

\* the matches of every pattern of a table, table order first, then match order
RECURSIVE AllMatches(_, _, _)
AllMatches(pats, k, command) ==
  IF k > Len(pats) THEN <<>>
  ELSE LET ms == re_finditer(pats[k].re, command)
       IN [j \in 1..Len(ms) |-> [pat |-> k, m |-> ms[j]]] \o AllMatches(pats, k + 1, command)

check_bash_write_paths(command, root) ==
  LET ms == AllMatches(BASH_WRITE_PATTERNS, 1, command)
  IN FirstBlocked([j \in 1..Len(ms) |->
       WriteTarget(BASH_WRITE_PATTERNS[ms[j].pat].text, group(command, ms[j].m, 1), root)])

\* a variant of CopyPair that tests the destination's boundary before its
\* protection
CopyPair_BoundaryFirst(source_path, dest_path, root) ==
  LET source_expanded == expanduser(source_path)
      dest_expanded == expanduser(dest_path)
      source_checked == StartsWith(source_path, <<"~">>) \/ StartsWith(source_path, <<"/">>)
      dest_checked == StartsWith(dest_path, <<"~">>) \/ StartsWith(dest_path, <<"/">>)
  IN IF source_checked /\ ~IsTmp(source_expanded)
          /\ is_path_outside_project(source_expanded, root)
       THEN Result(TRUE, Reason("Cannot copy/move from '{source_path}' - source is outside project directory",
                                "", source_path, <<>>))
     ELSE IF dest_checked /\ ~IsTmp(dest_expanded)
               /\ is_path_outside_project(dest_expanded, root)
       THEN Result(TRUE, Reason("Cannot copy/move to '{dest_path}' - destination is outside project directory",
                                "", dest_path, <<>>))
     ELSE IF dest_checked /\ ~IsTmp(dest_expanded) /\ is_protected_path(dest_expanded).flag
       THEN Result(TRUE, Reason("Cannot copy/move to protected path: {dest_path}",
                                "", dest_path, <<>>))
     ELSE Result(FALSE, NoReason)

\* the body of check_bash_copy_operations' inner loop for one match
CopyPair(source_path, dest_path, root) ==
  LET source_expanded == expanduser(source_path)
      dest_expanded == expanduser(dest_path)
      source_checked == StartsWith(source_path, <<"~">>) \/ StartsWith(source_path, <<"/">>)
      dest_checked == StartsWith(dest_path, <<"~">>) \/ StartsWith(dest_path, <<"/">>)
  IN IF source_checked /\ ~IsTmp(source_expanded)
          /\ is_path_outside_project(source_expanded, root)
       THEN Result(TRUE, Reason("Cannot copy/move from '{source_path}' - source is outside project directory",
                                "", source_path, <<>>))
     ELSE IF dest_checked /\ ~IsTmp(dest_expanded) /\ is_protected_path(dest_expanded).flag
       THEN Result(TRUE, Reason("Cannot copy/move to protected path: {dest_path}",
                                "", dest_path, <<>>))
     ELSE IF dest_checked /\ ~IsTmp(dest_expanded)
               /\ is_path_outside_project(dest_expanded, root)
       THEN Result(TRUE, Reason("Cannot copy/move to '{dest_path}' - destination is outside project directory",
                                "", dest_path, <<>>))
     ELSE Result(FALSE, NoReason)

check_bash_copy_operations(command, root) ==
  LET pats == [k \in 1..Len(BASH_COPY_PATTERNS) |-> Pat(BASH_COPY_PATTERNS[k], "")]
      ms == AllMatches(pats, 1, command)
  IN FirstBlocked([j \in 1..Len(ms) |->
       CopyPair(group(command, ms[j].m, 1), group(command, ms[j].m, 2), root)])

(***************************************************************************)
(* main: the dispatcher                                                    *)
(***************************************************************************)
\* a variant of FileTools that takes Read for a file-writing tool
FileTools_WithRead == {"Write", "Edit", "Read"}

\* the tool names of the Write/Edit branch
FileTools == {"Write", "Edit"}

\* tool_input.get("file_path", "") and tool_input.get("command", "")
file_path == Get(tool_input, "file_path", <<>>)
command == Get(tool_input, "command", <<>>)

\* what deny_tool prints: the hookSpecificOutput of a denial
DenyOutput(reason, cmd) ==
  [hookEventName |-> "PreToolUse", permissionDecision |-> "deny",
   prefix |-> "BLOCKED: ", permissionDecisionReason |-> reason, command |-> cmd]

\* a call of a checker from main, with what it returned
Call(fn, res) == [fn |-> fn, flag |-> res.flag, reason |-> res.reason]

\* deny_tool: print the denial and exit
deny_tool(out) == stdout' = Append(stdout, out) /\ pc' = "exit"

\* main, lines 252-263: decode the request, pick the project root
ReadInput ==
  /\ pc = "read"
  /\ IF ~stdin.valid
       THEN /\ pc' = "exit"
            /\ UNCHANGED <<tool_name, tool_input, project_root>>
       ELSE /\ tool_name' = Get(stdin.data, "tool_name", "")
            /\ tool_input' = Get(stdin.data, "tool_input", <<>>)
            /\ project_root' =
                 IF Get(environ, "CLAUDE_PROJECT_DIR", <<>>) # <<>>
                   THEN environ["CLAUDE_PROJECT_DIR"]
                 ELSE IF Get(stdin.data, "cwd", <<>>) # <<>> THEN stdin.data["cwd"]
                 ELSE os_getcwd
            /\ pc' = "file"
  /\ UNCHANGED <<stdin, environ, os_getcwd, calls, stdout>>

\* main, lines 266-270: the Write/Edit branch and its empty-path exit
FileBranch ==
  /\ pc = "file"
  /\ pc' = IF tool_name \in FileTools
             THEN (IF file_path = <<>> THEN "exit" ELSE "protected")
             ELSE "bash"
  /\ UNCHANGED <<stdin, environ, os_getcwd, tool_name, tool_input, project_root,
                 calls, stdout>>

\* a variant of CheckProtected that does not deny a protected path
CheckProtected_NoDeny ==
  /\ pc = "protected"
  /\ calls' = Append(calls, Call("is_protected_path", is_protected_path(file_path)))
  /\ pc' = "outside"
  /\ UNCHANGED <<stdin, environ, os_getcwd, tool_name, tool_input, project_root, stdout>>

\* main, lines 273-275
CheckProtected ==
  /\ pc = "protected"
  /\ LET r == is_protected_path(file_path)
     IN /\ calls' = Append(calls, Call("is_protected_path", r))
        /\ IF r.flag THEN deny_tool(DenyOutput(r.reason, <<>>))
           ELSE pc' = "outside" /\ UNCHANGED stdout
  /\ UNCHANGED <<stdin, environ, os_getcwd, tool_name, tool_input, project_root>>

\* main, lines 278-282
CheckOutside ==
  /\ pc = "outside"
  /\ LET outside == is_path_outside_project(file_path, project_root)
     IN /\ calls' = Append(calls, Call("is_path_outside_project", Result(outside, NoReason)))
        /\ IF outside
             THEN deny_tool(DenyOutput(
                    Reason("Cannot write to '{file_path}' - path is outside project directory '{project_root}'",
                           "", file_path, project_root), <<>>))
             ELSE pc' = "bash" /\ UNCHANGED stdout
  /\ UNCHANGED <<stdin, environ, os_getcwd, tool_name, tool_input, project_root>>

\* main, lines 285-289: the Bash branch and its empty-command exit
BashBranch ==
  /\ pc = "bash"
  /\ pc' = IF tool_name = "Bash"
             THEN (IF command = <<>> THEN "exit" ELSE "dangerous")
             ELSE "allow"
  /\ UNCHANGED <<stdin, environ, os_getcwd, tool_name, tool_input, project_root,
                 calls, stdout>>

\* a variant of CheckDangerous that goes on to the next check after a match
CheckDangerous_NoExit ==
  /\ pc = "dangerous"
  /\ calls' = Append(calls, Call("check_bash_command", check_bash_command(command)))
  /\ pc' = "write"
  /\ UNCHANGED <<stdin, environ, os_getcwd, tool_name, tool_input, project_root, stdout>>

\* main, lines 291-293
CheckDangerous ==
  /\ pc = "dangerous"
  /\ LET r == check_bash_command(command)
     IN /\ calls' = Append(calls, Call("check_bash_command", r))
        /\ IF r.flag THEN deny_tool(DenyOutput(r.reason, command))
           ELSE pc' = "write" /\ UNCHANGED stdout
  /\ UNCHANGED <<stdin, environ, os_getcwd, tool_name, tool_input, project_root>>

\* main, lines 296-298
CheckWritePaths ==
  /\ pc = "write"
  /\ LET r == check_bash_write_paths(command, project_root)
     IN /\ calls' = Append(calls, Call("check_bash_write_paths", r))
        /\ IF r.flag THEN deny_tool(DenyOutput(r.reason, command))
           ELSE pc' = "copy" /\ UNCHANGED stdout
  /\ UNCHANGED <<stdin, environ, os_getcwd, tool_name, tool_input, project_root>>

\* main, lines 301-303
CheckCopy ==
  /\ pc = "copy"
  /\ LET r == check_bash_copy_operations(command, project_root)
     IN /\ calls' = Append(calls, Call("check_bash_copy_operations", r))
        /\ IF r.flag THEN deny_tool(DenyOutput(r.reason, command))
           ELSE pc' = "allow" /\ UNCHANGED stdout
  /\ UNCHANGED <<stdin, environ, os_getcwd, tool_name, tool_input, project_root>>

\* main, line 306: allow_tool
AllowTool ==
  /\ pc = "allow"
  /\ pc' = "exit"
  /\ UNCHANGED <<stdin, environ, os_getcwd, tool_name, tool_input, project_root,
                 calls, stdout>>

(***************************************************************************)
(* The requests and environments a run starts from                         *)
(***************************************************************************)
\* the longest path, in segments, and the most flag clusters of a cp or mv
MaxSegs == 2
MaxFlags == 1

HomeDir == <<"/","h","o","m","e","/","u","s","e","r">>
ProjectRoots == {<<"/">>, <<"/","x">>, <<"/","x","/">>}
\* CLAUDE_CONFIG_DIR; <<>> stands for unset
ConfigDirs == {<<>>, <<"/","v","a","r","/","x">>, <<"~","/","x">>}
\* where the project root comes from: the environment, the request or the process
Sources == {"env", "cwd", "getcwd"}

Environment(src, root, config) ==
  [source |-> src, root |-> root, config |-> config]

environ_of(e) ==
  [k \in {"HOME"} \cup (IF e.source = "env" THEN {"CLAUDE_PROJECT_DIR"} ELSE {})
                  \cup (IF e.config # <<>> THEN {"CLAUDE_CONFIG_DIR"} ELSE {}) |->
     IF k = "HOME" THEN HomeDir
     ELSE IF k = "CLAUDE_PROJECT_DIR" THEN e.root ELSE e.config]

\* the process's working directory: the project when nothing else names it
getcwd_of(e) == IF e.source = "getcwd" THEN RStrip(e.root, os_sep) \o
                       (IF RStrip(e.root, os_sep) = <<>> THEN <<os_sep>> ELSE <<>>)
                ELSE <<"/","x">>

\* the request envelope; a request of source "env" still carries a cwd
Request(name, input) == [valid |-> TRUE, tool_name |-> name, tool_input |-> input]
\* input that json.load rejects
Malformed == [valid |-> FALSE, tool_name |-> "", tool_input |-> <<>>]

input_data_of(req, e) ==
  [k \in (IF req.valid THEN {"tool_name", "tool_input"} ELSE {})
          \cup (IF req.valid /\ e.source # "getcwd" THEN {"cwd"} ELSE {}) |->
     IF k = "tool_name" THEN req.tool_name
     ELSE IF k = "tool_input" THEN req.tool_input
     ELSE IF e.source = "cwd" THEN e.root ELSE <<"/","x","X">>]

NoInput == <<>>
FileInput(path) == [k \in {"file_path"} |-> path]
CommandInput(cmd) == [k \in {"command"} |-> cmd]

\* paths: a prefix and up to MaxSegs segments
Prefixes == {<<"/">>, <<>>, <<"~","/">>, <<"/","/">>}
Segs == {<<"v","a","r">>, <<"v","a","r","i","a","n","t">>, <<"l","i","b","6","4">>, <<"t","m","p">>, <<"x">>, <<"x","X">>, <<".",".">>}
SegSeqs == UNION {[1..k -> Segs] : k \in 0..MaxSegs}
Paths == {p \o Join(segs, os_sep) : p \in Prefixes, segs \in SegSeqs}

\* redirections: echo hi, then one or two of > T, >> T, | tee T
RedirectOps == {<<" ",">"," ">>, <<" ",">">>, <<" ",">",">"," ">>, <<" ","|"," ","t","e","e"," ">>, <<" ","|"," ","t","e","e"," ","-","a"," ">>}
Targets == {<<"/","d","e","v","/","n","u","l","l">>, <<"/","d","e","v","/","s","d","a">>, <<"/","t","m","p","/","x">>, <<"/","t","m","p","/",".",".","/","v","a","r","/","x">>, <<"/","v","a","r","/","x">>,
            <<"/","x","/","f">>, <<"/","x","X">>, <<".","/","l">>}
SecondTargets == {<<"/","v","a","r","/","x">>, <<"/","x","X">>, <<".","/","l">>}
Clauses(targets) == {op \o t : op \in RedirectOps, t \in targets}
WriteCommands ==
  {<<"e","c","h","o"," ","h","i">> \o c1 \o c2 : c1 \in Clauses(Targets), c2 \in Clauses(SecondTargets) \cup {<<>>}}

\* cp and mv: verb, flag clusters, source, destination
Verbs == {<<"c","p">>, <<"m","v">>}
FlagClusters == {<<"-","r"," ">>, <<"-","f","v"," ">>}
RECURSIVE Flatten(_)
Flatten(ss) == IF ss = <<>> THEN <<>> ELSE Head(ss) \o Flatten(Tail(ss))
FlagRuns == {Flatten(fs) : fs \in UNION {[1..k -> FlagClusters] : k \in 0..MaxFlags}}
Operands == {<<"a",".","t","x","t">>, <<".","/","b">>, <<"/","x","/","f">>, <<"/","x","X","/","f">>, <<"/","v","a","r","/","x">>, <<"/","t","m","p","/","x">>,
             <<"/","t","m","p","/",".",".","/","v","a","r","/","x">>, <<"~","/","f">>, <<"~","/","x","/","f">>}
CopyCommands == {v \o <<" ">> \o fl \o src \o <<" ">> \o dst :
                   v \in Verbs, fl \in FlagRuns, src \in Operands, dst \in Operands}

\* the representative commands of the pattern table, and recursive chmod/chown
Modes == {<<>>, <<"7","7","7"," ">>, <<"u","s","e","r"," ">>}
ChmodTargets == {<<"/">>, <<"/","e","t","c">>, <<"/","x">>, <<".">>}
RecursiveCommands == {v \o <<" ","-","R"," ">> \o m \o t :
                        v \in {<<"c","h","m","o","d">>, <<"c","h","o","w","n">>}, m \in Modes, t \in ChmodTargets}
RepresentativeCommands ==
  {<<"r","m"," ","-","r","f"," ","/">>, <<"r","m"," ","-","r","f"," ","~","/">>, <<"r","m"," ","-","r"," ",".",".","/","x">>, <<"c","h","m","o","d"," ","-","R"," ","7","7","7"," ","/","e","t","c">>, <<"c","h","o","w","n"," ","u","s","e","r"," ","/","u","s","r","/","b","i","n">>,
   <<"d","d"," ","o","f","=","/","d","e","v","/","s","d","a">>, <<"m","k","f","s"," ","/","d","e","v","/","s","d","a">>, <<"f","d","i","s","k"," ","-","l">>, <<"p","a","r","t","e","d">>, <<"k","i","l","l","a","l","l"," ","-","9"," ","x">>,
   <<"p","k","i","l","l"," ","-","9"," ","x">>, <<"s","y","s","t","e","m","c","t","l"," ","s","t","o","p"," ","s","s","h","d">>, <<"l","a","u","n","c","h","c","t","l"," ","u","n","l","o","a","d"," ","x">>, <<"i","p","t","a","b","l","e","s"," ","-","F">>,
   <<"u","f","w"," ","d","i","s","a","b","l","e">>, <<"s","u","d","o"," ","r","m"," ","-","r","f"," ","/","t","m","p","/","x">>, <<"s","u","d","o"," ","c","h","m","o","d"," ","x">>, <<"s","u","d","o"," ","c","h","o","w","n"," ","x">>,
   <<"f","i","n","d"," ","/"," ","-","t","y","p","e"," ","f"," ","-","d","e","l","e","t","e">>, <<"f","i","n","d"," ","/"," ","-","e","x","e","c"," ","r","m">>, <<"l","s"," ","-","l","a">>, <<"e","c","h","o"," ","h","i"," ",">"," ","/","e","t","c","/","p","a","s","s","w","d">>,
   <<"e","c","h","o"," ","h","i"," ",">"," ",".","/","l","o","c","a","l",".","t","x","t">>, <<"c","m","d"," ",">"," ","/","d","e","v","/","n","u","l","l">>, <<"c","p"," ","r","e","p","o","r","t",".","p","d","f"," ","/","t","m","p","/","r","e","p","o","r","t",".","p","d","f">>,
   <<"c","p"," ","/","v","a","r","/","x"," ","/","x","X"," ",">"," ","/","e","t","c","/","f">>, <<"c","p"," ","/","x","X","/","f"," ","a"," ",">"," ","/","x","X">>, <<"R","M"," ","-","R","F"," ","/">>, <<"c","p"," ","-","r"," ","a">>}

Environments ==
  {Environment(src, root, config) :
     src \in Sources, root \in ProjectRoots, config \in ConfigDirs}
\* the environments that set CLAUDE_PROJECT_DIR
EnvEnvironments == {e \in Environments : e.source = "env"}
\* one usual environment: the project is /x, named by CLAUDE_PROJECT_DIR
UsualEnvironments == {Environment("env", <<"/","x">>, <<>>)}

FileRequests == {Request(t, FileInput(p)) : t \in FileTools, p \in Paths}
BashRequests(cmds) == {Request("Bash", CommandInput(c)) : c \in cmds}
\* requests with no payload, of other kinds, with an empty payload, or malformed
OtherRequests ==
  {Request(t, i) : t \in {"Write", "Edit", "Bash", "Read", ""},
                   i \in {NoInput, FileInput(<<>>), CommandInput(<<>>),
                          FileInput(<<"/","e","t","c","/","p","a","s","s","w","d">>), CommandInput(<<"r","m"," ","-","r","f"," ","/">>)}}
    \cup {Malformed}
\* a few requests of every kind, so that every step of main is taken
BaseRequests ==
  OtherRequests
    \cup {Request("Write", FileInput(p)) : p \in {<<"/","x","/","s","r","c","/","m","a","i","n",".","g","o">>, <<"/","x","X","/","f">>, <<"~","/",".","c","l","a","u","d","e","/","p","l","a","n">>}}
    \cup BashRequests({<<"l","s"," ","-","l","a">>, <<"e","c","h","o"," ","h","i"," ",">"," ","/","e","t","c","/","p","a","s","s","w","d">>, <<"e","c","h","o"," ","h","i"," ",">"," ","/","x","X">>,
                       <<"c","p"," ","/","x","X","/","f"," ","a">>, <<"c","p"," ","r","e","p","o","r","t",".","p","d","f"," ","/","t","m","p","/","r","e","p","o","r","t",".","p","d","f">>})

InitWith(requests, environments) ==
  /\ \E req \in requests, e \in environments :
       /\ stdin = [valid |-> req.valid, data |-> input_data_of(req, e)]
       /\ environ = environ_of(e)
       /\ os_getcwd = getcwd_of(e)
  /\ pc = "read"
  /\ tool_name = ""
  /\ tool_input = NoInput
  /\ project_root = <<>>
  /\ calls = <<>>
  /\ stdout = <<>>

\* requests of every kind, in every environment
Init == InitWith(BaseRequests, Environments)

\* Write and Edit requests for every path
InitFile ==
  \/ InitWith(FileRequests, EnvEnvironments)
  \/ InitWith(BaseRequests, UsualEnvironments)

\* Bash requests: redirections, recursive chmod/chown, the representative commands
InitBash ==
  \/ InitWith(BashRequests(WriteCommands \cup RecursiveCommands \cup RepresentativeCommands),
              UsualEnvironments)
  \/ InitWith(BaseRequests, UsualEnvironments)

\* Bash requests: cp and mv
InitCopy ==
  \/ InitWith(BashRequests(CopyCommands),
              {e \in EnvEnvironments : e.root # <<"/","x","/">> /\ e.config # <<"/","v","a","r","/","x">>})
  \/ InitWith(BaseRequests, UsualEnvironments)

Next ==
  \/ ReadInput
  \/ FileBranch
  \/ CheckProtected
  \/ CheckOutside
  \/ BashBranch
  \/ CheckDangerous
  \/ CheckWritePaths
  \/ CheckCopy
  \/ AllowTool

Spec == Init /\ [][Next]_vars
SpecFile == InitFile /\ [][Next]_vars
SpecBash == InitBash /\ [][Next]_vars
SpecCopy == InitCopy /\ [][Next]_vars

(***************************************************************************)
(* The request as sent, and notions the properties are stated in           *)
(***************************************************************************)
ReqTool == Get(stdin.data, "tool_name", "")
ReqInput == Get(stdin.data, "tool_input", <<>>)
ReqPath == Get(ReqInput, "file_path", <<>>)
ReqCommand == Get(ReqInput, "command", <<>>)
\* the project root main uses
ReqRoot ==
  IF "CLAUDE_PROJECT_DIR" \in DOMAIN environ THEN environ["CLAUDE_PROJECT_DIR"]
  ELSE IF "cwd" \in DOMAIN stdin.data THEN stdin.data["cwd"] ELSE os_getcwd

\* the path segments of an absolute path; the root / has the single segment ""
SegmentsOf(p) ==
  LET ss == Split(p, os_sep)
  IN IF Len(ss) > 1 /\ ss[Len(ss)] = <<>> THEN SubSeq(ss, 1, Len(ss) - 1) ELSE ss

\* p equals dir or is nested under it by whole path segments
UnderOrEqual(p, dir) ==
  LET ps == SegmentsOf(p)
      ds == SegmentsOf(dir)
  IN Len(ds) <= Len(ps) /\ SubSeq(ps, 1, Len(ds)) = ds

\* the call of fn recorded in calls, if any
CallsOf(fn) == {k \in 1..Len(calls) : calls[k].fn = fn}

(***************************************************************************)
(* Properties                                                              *)
(***************************************************************************)
FirstOf(S) == CHOOSE k \in S : \A j \in S : k <= j

\* the normalized absolute form of the requested path
AbsReqPath == abspath(expanduser(ReqPath))

\* C1: is_protected_path answers protected exactly when the normalized
\* absolute path equals a protected root or lies under it by whole path
\* segments, and then its reason names the first such root of the list.
C1_ProtectedExactlyUnderRoot ==
  \A k \in CallsOf("is_protected_path") :
    LET under == {j \in 1..Len(PROTECTED_DIRECTORIES) :
                    UnderOrEqual(AbsReqPath, PROTECTED_DIRECTORIES[j])}
    IN /\ calls[k].flag = (under # {})
       /\ calls[k].flag =>
            calls[k].reason =
              Reason("Cannot modify files in protected directory: {protected_dir}",
                     "", <<>>, PROTECTED_DIRECTORIES[FirstOf(under)])

\* a relative path that climbs out of the project into /lib64 is protected,
\* and the reason names /lib64, not /lib
C1_Witness ==
  /\ ReqPath = <<".",".","/","l","i","b","6","4">>
  /\ os_getcwd = <<"/","x">>
  /\ \E k \in CallsOf("is_protected_path") :
       calls[k].flag /\ calls[k].reason.dir = <<"/","l","i","b","6","4">>

\* C2 (as claimed): is_path_outside_project is false for a path that equals
\* the project root or lies under it by whole segments, false under the
\* configuration directory or a temporary root, and true otherwise, for every
\* project root including /.
C2_OutsideExactlyWhenNotInside ==
  \A k \in CallsOf("is_path_outside_project") :
    calls[k].flag =
      ~ \/ UnderOrEqual(AbsReqPath, abspath(ReqRoot))
        \/ UnderOrEqual(AbsReqPath, abspath(claude_config_dir))
        \/ StartsWith(AbsReqPath, <<"/","t","m","p","/">>)
        \/ StartsWith(AbsReqPath, <<"/","p","r","i","v","a","t","e","/","t","m","p","/">>)

\* the expected verdict of a Write/Edit request, from the two path checkers
FileVerdict(path, root) ==
  LET prot == is_protected_path(path)
  IN IF prot.flag THEN <<DenyOutput(prot.reason, <<>>)>>
     ELSE IF is_path_outside_project(path, root)
       THEN <<DenyOutput(
                Reason("Cannot write to '{file_path}' - path is outside project directory '{project_root}'",
                       "", path, root), <<>>)>>
     ELSE <<>>

\* C4: a Write/Edit request with a non-empty path ends denied exactly when
\* the path is protected or outside the project; the protected check decides
\* first, so its reason is the one given, also under the configuration
\* directory.
C4_FileVerdict ==
  (pc = "exit" /\ stdin.valid /\ ReqTool \in {"Write", "Edit"} /\ ReqPath # <<>>)
    => stdout = FileVerdict(ReqPath, ReqRoot)

\* a protected path inside the configuration directory is denied, with the
\* protected-directory reason
C4_Witness ==
  /\ pc = "exit"
  /\ ReqTool = "Write"
  /\ Get(environ, "CLAUDE_CONFIG_DIR", <<>>) = <<"/","v","a","r","/","x">>
  /\ ReqPath = <<"/","v","a","r","/","x">>
  /\ UnderOrEqual(AbsReqPath, abspath(claude_config_dir))
  /\ stdout = <<DenyOutput(Reason("Cannot modify files in protected directory: {protected_dir}",
                                  "", <<>>, <<"/","v","a","r">>), <<>>)>>

\* the requests main restricts: Write/Edit with a path, Bash with a command
Restricted ==
  /\ stdin.valid
  /\ \/ ReqTool \in {"Write", "Edit"} /\ ReqPath # <<>>
     \/ ReqTool = "Bash" /\ ReqCommand # <<>>

\* C5: only a Write/Edit request with a non-empty path or a Bash request with
\* a non-empty command is ever denied; every other request runs no check,
\* prints nothing, and is never stuck before it exits.
C5_DenyOnlyRestricted ==
  /\ stdout # <<>> => Restricted
  /\ ~Restricted => /\ calls = <<>>
                    /\ stdout = <<>>
                    /\ pc \in {"read", "file", "bash", "allow", "exit"}
                    /\ (pc = "exit" \/ ENABLED Next)

\* a Read request for /etc/passwd has exited with no denial
C5_Witness ==
  /\ pc = "exit"
  /\ ReqTool = "Read"
  /\ ReqPath = <<"/","e","t","c","/","p","a","s","s","w","d">>
  /\ stdout = <<>>

\* the calls main makes for a Bash command, and what it prints, from the
\* three checkers in their order
BashCalls(cmd, root) ==
  LET d == Call("check_bash_command", check_bash_command(cmd))
      w == Call("check_bash_write_paths", check_bash_write_paths(cmd, root))
      c == Call("check_bash_copy_operations", check_bash_copy_operations(cmd, root))
  IN IF d.flag THEN <<d>> ELSE IF w.flag THEN <<d, w>> ELSE <<d, w, c>>

\* C3: a Bash request with a non-empty command runs the pattern matcher, the
\* indirect-write extractor and the copy/move extractor in that order, stops
\* at the first that blocks and prints that one's denial; it prints nothing
\* when none blocks, and never more than one verdict.
C3_FirstDenialFinal ==
  /\ Len(stdout) <= 1
  /\ stdout # <<>> => pc = "exit"
  /\ (pc = "exit" /\ stdin.valid /\ ReqTool = "Bash" /\ ReqCommand # <<>>) =>
       LET expected == BashCalls(ReqCommand, ReqRoot)
           last == expected[Len(expected)]
       IN /\ calls = expected
          /\ stdout = IF last.flag THEN <<DenyOutput(last.reason, ReqCommand)>> ELSE <<>>

\* echo hi > /etc/passwd, which the indirect-write extractor would block too,
\* is denied with the pattern matcher's reason
C3_Witness ==
  /\ pc = "exit"
  /\ ReqCommand = <<"e","c","h","o"," ","h","i"," ",">"," ","/","e","t","c","/","p","a","s","s","w","d">>
  /\ check_bash_write_paths(ReqCommand, ReqRoot).flag
  /\ Len(calls) = 1
  /\ stdout = <<DenyOutput(Reason("Cannot redirect output to /etc/", "", <<>>, <<>>),
                           ReqCommand)>>

\* the redirect/append/tee occurrences of a command: each with the pattern
\* that found it, the offset it starts at, and its target token
WriteOccurrences(cmd) ==
  LET ms == AllMatches(BASH_WRITE_PATTERNS, 1, cmd)
  IN {[pat |-> ms[j].pat, start |-> ms[j].m.start, target |-> group(cmd, ms[j].m, 1)] :
        j \in 1..Len(ms)}

\* some protected root holds the normalized path
UnderProtectedRoot(path) ==
  \E j \in 1..Len(PROTECTED_DIRECTORIES) :
    UnderOrEqual(abspath(path), PROTECTED_DIRECTORIES[j])

\* C6 (as claimed): when a command holds a redirect, append or tee whose
\* target is absolute, is not /dev/null, is not under a temporary root and
\* lies under a protected root (/dev included), check_bash_write_paths blocks.
C6_ProtectedTargetBlocked ==
  \A k \in CallsOf("check_bash_write_paths") :
    (\E o \in WriteOccurrences(ReqCommand) :
       /\ StartsWith(o.target, <<"/">>)
       /\ o.target # <<"/","d","e","v","/","n","u","l","l">>
       /\ ~IsTmp(o.target) /\ ~IsTmp(abspath(o.target))
       /\ UnderProtectedRoot(o.target))
      => calls[k].flag

\* recursive chmod or chown of the filesystem root, any mode or owner between
RecursiveOnRoot == {v \o <<" ","-","R"," ">> \o m \o <<"/">> : v \in {<<"c","h","m","o","d">>, <<"c","h","o","w","n">>}, m \in Modes}
\* the representative command of every other category
DangerousRepresentatives ==
  {<<"r","m"," ","-","r","f"," ","/">>, <<"c","h","m","o","d"," ","-","R"," ","7","7","7"," ","/","e","t","c">>, <<"d","d"," ","o","f","=","/","d","e","v","/","s","d","a">>, <<"s","y","s","t","e","m","c","t","l"," ","s","t","o","p"," ","s","s","h","d">>,
   <<"s","u","d","o"," ","r","m"," ","-","r","f"," ","/","t","m","p","/","x">>}

\* C8 (as claimed): check_bash_command reports dangerous for every recursive
\* chmod or chown of the filesystem root and for each representative
\* command, and not dangerous for ls -la.
C8_RecursiveRootDangerous ==
  \A k \in CallsOf("check_bash_command") :
    /\ ReqCommand \in RecursiveOnRoot \cup DangerousRepresentatives => calls[k].flag
    /\ ReqCommand = <<"l","s"," ","-","l","a">> => ~calls[k].flag

\* the operation kind of an occurrence: a > that directly follows a > is the
\* second character of an append
KindOf(cmd, o) ==
  IF o.pat = 1 /\ o.start > 0 /\ cmd[o.start] = ">" THEN "append output"
  ELSE BASH_WRITE_PATTERNS[o.pat].text

\* C9 (as claimed): when check_bash_write_paths blocks, its reason names the
\* operation kind and the target of a construct of the command that blocks:
\* redirect output for >, append output for >>, tee for tee.
C9_ReasonNamesConstruct ==
  \A k \in CallsOf("check_bash_write_paths") :
    calls[k].flag =>
      \E o \in WriteOccurrences(ReqCommand) :
        /\ calls[k].reason.desc = KindOf(ReqCommand, o)
        /\ calls[k].reason.path = o.target
        /\ WriteTarget(KindOf(ReqCommand, o), o.target, ReqRoot).flag

\* the cp/mv source and destination tokens of a command
CopyOperands(cmd) ==
  LET pats == [k \in 1..Len(BASH_COPY_PATTERNS) |-> Pat(BASH_COPY_PATTERNS[k], "")]
      ms == AllMatches(pats, 1, cmd)
  IN {group(cmd, ms[j].m, 1) : j \in 1..Len(ms)} \cup {group(cmd, ms[j].m, 2) : j \in 1..Len(ms)}

\* the targets the two extractors skip as temporary
SkippedAsTemporary(cmd) ==
  {o.target : o \in {w \in WriteOccurrences(cmd) :
                       ~StartsWith(w.target, <<"/","d","e","v","/">>) /\ IsTmp(w.target)}}
    \cup {t \in CopyOperands(cmd) :
            (StartsWith(t, <<"~">>) \/ StartsWith(t, <<"/">>)) /\ IsTmp(expanduser(t))}

\* C10 (as claimed): a target the extractors skip as temporary lies under
\* /tmp/ or /private/tmp/ once normalized, so a Bash command allowed with
\* such a target is one whose target a Write request would be allowed for.
C10_TemporarySkipIsNormalized ==
  (pc = "exit" /\ CallsOf("check_bash_write_paths") # {}) =>
    \A t \in SkippedAsTemporary(ReqCommand) :
      /\ IsTmp(abspath(expanduser(t)))
      /\ stdout = <<>> => FileVerdict(t, ReqRoot) = <<>>

\* the words of a command written with single spaces
Words(cmd) == Split(cmd, " ")
IsFlagCluster(w) ==
  Len(w) >= 2 /\ w[1] = "-" /\ \A k \in 2..Len(w) : w[k] \in LowerCase \cup UpperCase
IsPathToken(w) ==
  w # <<>> /\ \A k \in 1..Len(w) : w[k] \notin Whitespace \cup {";", "|", "&", ">", "<"}
\* <verb> [short flag clusters] S D
IsCopyForm(cmd) ==
  LET ws == Words(cmd)
      n == Len(ws)
  IN /\ n >= 3
     /\ ws[1] \in {<<"c","p">>, <<"m","v">>}
     /\ \A k \in 2..(n - 2) : IsFlagCluster(ws[k])
     /\ IsPathToken(ws[n - 1]) /\ IsPathToken(ws[n])
Rooted(w) == w[1] = "~" \/ w[1] = "/"

\* what the claim expects of cp/mv S D
CopyExpected(src, dst, root) ==
  IF Rooted(src) /\ ~IsTmp(expanduser(src)) /\ is_path_outside_project(src, root)
    THEN Result(TRUE, Reason("Cannot copy/move from '{source_path}' - source is outside project directory",
                             "", src, <<>>))
  ELSE IF Rooted(dst) /\ ~IsTmp(expanduser(dst)) /\ is_protected_path(dst).flag
    THEN Result(TRUE, Reason("Cannot copy/move to protected path: {dest_path}", "", dst, <<>>))
  ELSE IF Rooted(dst) /\ ~IsTmp(expanduser(dst)) /\ is_path_outside_project(dst, root)
    THEN Result(TRUE, Reason("Cannot copy/move to '{dest_path}' - destination is outside project directory",
                             "", dst, <<>>))
  ELSE Result(FALSE, NoReason)

\* C7: for cp/mv [flag clusters] S D, check_bash_copy_operations blocks
\* exactly when S is rooted (~ or /), not temporary and outside the project,
\* or D is rooted, not temporary and protected or outside the project; never
\* when both are relative; and a protected D is reported as protected before
\* it is reported as outside.
C7_CopyBlockedExactly ==
  \A k \in CallsOf("check_bash_copy_operations") :
    IsCopyForm(ReqCommand) =>
      LET ws == Words(ReqCommand)
          src == ws[Len(ws) - 1]
          dst == ws[Len(ws)]
          expected == CopyExpected(src, dst, ReqRoot)
      IN /\ calls[k].flag = expected.flag
         /\ calls[k].reason = expected.reason
         /\ (~Rooted(src) /\ ~Rooted(dst)) => ~calls[k].flag

\* mv -r ./b /var/x: a relative source and a destination that is protected
\* and outside the project is blocked as protected
C7_Witness ==
  /\ ReqCommand = <<"m","v"," ","-","r"," ",".","/","b"," ","/","v","a","r","/","x">>
  /\ is_path_outside_project(<<"/","v","a","r","/","x">>, ReqRoot)
  /\ \E k \in CallsOf("check_bash_copy_operations") :
       /\ calls[k].flag
       /\ calls[k].reason.text = "Cannot copy/move to protected path: {dest_path}"

====
